---- MODULE Spec2Model ----
(***************************************************************************)
(* The grid navigator of aoc_solver/aoc_map.py (class AoCMap): a polars    *)
(* DataFrame `df` addressed as df[row, column], a cursor (x, y) and a      *)
(* heading, with the operations __getitem__, position (setter), look,      *)
(* update, walk and rotate.                                                *)
(*                                                                         *)
(* Optional arguments (steps=None, direction=None) are sequences of length *)
(* at most one: <<>> is None, <<v>> is the value v.                        *)
(*                                                                         *)
(* look, update and walk index the DataFrame relative to the cursor. They  *)
(* are followed from cursors inside the frame only: what an index outside  *)
(* the frame does is the DataFrame's business, not this class's.  rotate   *)
(* and the position setter do not touch the frame and run from any cursor. *)
(***************************************************************************)
EXTENDS Integers, Sequences, FiniteSets, TLC

(* ---------------------------- bounds ----------------------------------- *)
Width == 3
Height == 3
MaxSteps == 2
MaxLen == 2
MaxOffset == 2
MaxDegrees == 360
MaxStray == 2
MaxRequests == 2

(* ------------------------- Direction (IntEnum) ------------------------- *)
N == 0
NE == 1
E == 2
SE == 3
S == 4
SW == 5
W == 6
NW == 7

Directions == {N, NE, E, SE, S, SW, W, NW}

None == <<>>

Some(v) == <<v>>

(* ------------------------------- state --------------------------------- *)
(* df, x, y, heading: the fields of the navigator the calls are made on;   *)
(* last: its most recent call; twin: the other navigator once clone() has  *)
(* been called; cache, requests, io: the puzzle files of aoc_solver.py.    *)
VARIABLES df, x, y, heading, last, twin, cache, requests, io

vars == <<df, x, y, heading, last, twin, cache, requests, io>>

solver == <<cache, requests, io>>

(* Python's min on two integers *)
Min(a, b) == IF a <= b THEN a ELSE b

(* min(steps, n) where steps is an int or math.inf (None after line 97) *)
MinSteps(steps, n) == IF steps = None THEN n ELSE Min(steps[1], n)

(* the frame built by the __main__ demo: cell (col, row) holds 10*col+row *)
DemoFrame == [r \in 0..(Height - 1) |-> [c \in 0..(Width - 1) |-> 10 * c + r]]

(* list(range(90, 90 + n)), the values the demo writes *)
DemoValues(n) == [i \in 1..n |-> 90 + (i - 1)]

x_max == Width

y_max == Height

(* encloses with the upper limit of x off by one (range(x_max + 1)) *)
encloses_inclusive(px, py) == px \in 0..x_max /\ py \in 0..(y_max - 1)

encloses(px, py) == px \in 0..(x_max - 1) /\ py \in 0..(y_max - 1)

(* the reversal without the wrap-around: direction + 4 *)
Reverse_nomod(direction) == direction + 4

(* Direction((direction + 4) % 8) *)
Reverse(direction) == (direction + 4) % 8

(* the record of the most recent call: its arguments and its outcome       *)
(* (h0: the heading rotate started from)                                   *)
Call(op) ==
  [op |-> op, steps |-> None, direction |-> None, degrees |-> 0,
   values |-> <<>>, offset |-> 0, px |-> 0, py |-> 0, h0 |-> 0,
   err |-> "none", kind |-> "None", ret |-> <<>>]

(* no clone() yet: the fields of the other navigator are placeholders *)
NoTwin ==
  [made |-> FALSE, df |-> DemoFrame, x |-> 0, y |-> 0, heading |-> N,
   same_df |-> FALSE, receiver |-> "original"]

(* aoc_solver.py: the puzzle's output directory with its two files, before *)
(* anything is downloaded; a file is None until it exists                  *)
Files == {"data", "instructions"}

NoFiles == [dir |-> FALSE, data |-> None, instructions |-> None]

(* per file, the requests.get calls made by calls with overwrite=False,    *)
(* and how many of them returned a response                                *)
NoRequests == [f \in Files |-> [sent |-> 0, answered |-> 0]]

(* the record of the most recent call on the solver *)
Fetch(op, file, overwrite) ==
  [op |-> op, file |-> file, overwrite |-> overwrite, requested |-> FALSE,
   warned |-> FALSE, body |-> None, err |-> "none", ret |-> None]

Init ==
  /\ df = DemoFrame
  /\ x = 0
  /\ y = 0
  /\ heading = N
  /\ last = Call("init")
  /\ twin = NoTwin
  /\ cache = NoFiles
  /\ requests = NoRequests
  /\ io = Fetch("init", "data", FALSE)


(* ------------------------------- look ---------------------------------- *)
(* a value look can return: a list, a single cell value, or None *)
List(cells) == [kind |-> "list", val |-> cells]

Value(cell) == [kind |-> "value", val |-> <<cell>>]

NoValue == [kind |-> "None", val |-> <<>>]

(* self.df[r, c]; Stray stands for an index outside the frame *)
Stray == -1

InFrame(r, c) == r \in 0..(Height - 1) /\ c \in 0..(Width - 1)

Cell(r, c) == IF InFrame(r, c) THEN df[r][c] ELSE Stray

(* the comprehension started at the cursor's own cell (range(0, n)) *)
Cells_own(path) ==
  [i \in 1..Len(path) |->
     IF i = 1 THEN Cell(y, x) ELSE Cell(path[i - 1][1], path[i - 1][2])]

(* [self.df[r, c] for i in max_steps], path[i] being the index <<r, c>> *)
Cells(path) == [i \in 1..Len(path) |-> Cell(path[i][1], path[i][2])]

(* range(1, n): the scan stops one cell short *)
Range1_short(n) == 1..(n - 1)

(* range(1, n + 1) *)
Range1(n) == 1..n

Abs(n) == IF n < 0 THEN -n ELSE n

(* lines 105-140: steps is nonzero and not negative here (None is math.inf) *)
LookMatch(steps, direction) ==
  LET max_steps_N == MinSteps(steps, y)
      max_steps_E == MinSteps(steps, (x_max - 1) - x)
      max_steps_S == MinSteps(steps, (y_max - 1) - y)
      max_steps_W == MinSteps(steps, x)
  IN  CASE direction = N ->
             List(Cells([i \in Range1(max_steps_N) |->
                          <<y - i, x>>]))
        [] direction = NE ->
             List(Cells([i \in Range1(Min(max_steps_N, max_steps_E)) |->
                          <<y - i, x + i>>]))
        [] direction = E ->
             List(Cells([i \in Range1(max_steps_E) |->
                          <<y, x + i>>]))
        [] direction = SE ->
             List(Cells([i \in Range1(Min(max_steps_S, max_steps_E)) |->
                          <<y + i, x + i>>]))
        [] direction = S ->
             List(Cells([i \in Range1(max_steps_S) |->
                          <<y + i, x>>]))
        [] direction = SW ->
             List(Cells([i \in Range1(Min(max_steps_S, max_steps_W)) |->
                          <<y + i, x - i>>]))
        [] direction = W ->
             List(Cells([i \in Range1(max_steps_W) |->
                          <<y, x - i>>]))
        [] direction = NW ->
             List(Cells([i \in Range1(Min(max_steps_N, max_steps_W)) |->
                          <<y - i, x - i>>]))
        [] OTHER -> NoValue

(* look(steps, direction) evaluated at the current cursor *)
look(steps, direction) ==
  LET dir == IF direction = None THEN heading ELSE direction[1]
  IN  IF steps = None THEN LookMatch(None, dir)
      ELSE IF steps[1] = 0 THEN Value(Cell(y, x))
      ELSE IF steps[1] < 0
             THEN LookMatch(Some(Abs(steps[1])), Reverse(dir))
             ELSE LookMatch(steps, dir)

StepArgs == {None} \cup {Some(s) : s \in (-MaxSteps)..MaxSteps}

DirArgs == {None} \cup {Some(d) : d \in Directions}

Look(steps, direction) ==
  /\ encloses(x, y)
  /\ LET r == look(steps, direction)
     IN  last' = [Call("look") EXCEPT !.steps = steps,
                                      !.direction = direction,
                                      !.kind = r.kind, !.ret = r.val]
  /\ UNCHANGED <<df, x, y, heading, twin, solver>>

(* ------------------------------ update --------------------------------- *)
(* for i in range(n): self.df[row(i), col(i)] = values[i]                  *)
(* An index outside the frame is the DataFrame's to handle: the loop is     *)
(* followed up to the first such index, and `stray` reports it.            *)
Fits(path) ==
  IF \A i \in 1..Len(path) : InFrame(path[i][1], path[i][2]) THEN Len(path)
  ELSE (CHOOSE k \in 1..Len(path) :
          /\ ~InFrame(path[k][1], path[k][2])
          /\ \A i \in 1..(k - 1) : InFrame(path[i][1], path[i][2])) - 1

(* path[i + 1] is the index <<r, c>> that values[i] is written to *)
Written(path, values) ==
  LET k == Fits(path)
      Hits(r, c) == {i \in 1..k : path[i] = <<r, c>>}
      Newest(r, c) == CHOOSE i \in Hits(r, c) : \A j \in Hits(r, c) : j <= i
  IN  [frame |-> [r \in 0..(Height - 1) |-> [c \in 0..(Width - 1) |->
                    IF Hits(r, c) = {} THEN df[r][c]
                    ELSE values[Newest(r, c)]]],
       stray |-> k < Len(path)]

(* range(n), as the indices 1..n of values *)
Range(n) == 1..n

(* the limits taken from the cursor, the offset left out *)
UpdateLimits_nooffset(steps, offset) ==
  [N |-> Min(steps, y + 1),
   E |-> Min(steps, x_max - x),
   S |-> Min(steps, y_max - y),
   W |-> Min(steps, x + 1)]

(* lines 150-153: the four per-axis limits of update *)
UpdateLimits(steps, offset) ==
  [N |-> Min(steps, y + 1 - offset),
   E |-> Min(steps, x_max - x - offset),
   S |-> Min(steps, y_max - y - offset),
   W |-> Min(steps, x + 1 - offset)]

(* update(values, offset, direction): the frame it leaves *)
update(values, offset, direction) ==
  LET steps == Len(values)
      dir0 == IF direction = None THEN heading ELSE direction[1]
      dir == IF offset < 0 THEN Reverse(dir0) ELSE dir0
      off == IF offset < 0 THEN Abs(offset) ELSE offset
      max_steps_N == UpdateLimits(steps, off).N
      max_steps_E == UpdateLimits(steps, off).E
      max_steps_S == UpdateLimits(steps, off).S
      max_steps_W == UpdateLimits(steps, off).W
  IN  CASE dir = N ->
             Written([j \in Range(max_steps_N) |->
                       <<y - (j - 1) - off, x>>], values)
        [] dir = NE ->
             Written([j \in Range(Min(max_steps_N, max_steps_E)) |->
                       <<y - (j - 1) - off, x + (j - 1) + off>>], values)
        [] dir = E ->
             Written([j \in Range(max_steps_E) |->
                       <<y, x + (j - 1) + off>>], values)
        [] dir = SE ->
             Written([j \in Range(Min(max_steps_S, max_steps_E)) |->
                       <<y + (j - 1) + off, x + (j - 1) + off>>], values)
        [] dir = S ->
             Written([j \in Range(max_steps_S) |->
                       <<y + (j - 1) + off, x>>], values)
        [] dir = SW ->
             Written([j \in Range(Min(max_steps_S, max_steps_W)) |->
                       <<y + (j - 1) + off, x - (j - 1) - off>>], values)
        [] dir = W ->
             Written([j \in Range(max_steps_W) |->
                       <<y, x - (j - 1) - off>>], values)
        [] dir = NW ->
             Written([j \in Range(Min(max_steps_N, max_steps_W)) |->
                       <<y - (j - 1) - off, x - (j - 1) - off>>], values)
        [] OTHER -> Written(<<>>, values)

ValueArgs == {DemoValues(n) : n \in 0..MaxLen}

OffsetArgs == (-MaxOffset)..MaxOffset

Update(values, offset, direction) ==
  /\ encloses(x, y)
  /\ LET w == update(values, offset, direction)
     IN  /\ df' = w.frame
         /\ last' = [Call("update") EXCEPT
                       !.values = values, !.offset = offset,
                       !.direction = direction,
                       !.err = IF w.stray THEN "IndexError" ELSE "none"]
  /\ twin' = IF twin.same_df THEN [twin EXCEPT !.df = df'] ELSE twin
  /\ UNCHANGED <<x, y, heading, solver>>

(* ------------------------------- walk ---------------------------------- *)
(* min(steps, len(...)) without the clipping: the requested steps *)
PathLength_unclipped(steps, seen) == steps

(* line 195: min(steps, len(self.look(steps, direction))) *)
PathLength(steps, seen) == Min(steps, Len(seen))

(* the cursor walk(steps, direction) leaves; len() of a cell value or of   *)
(* None raises TypeError before anything is assigned                       *)
walk(steps, direction) ==
  LET dir == IF direction = None THEN heading ELSE direction[1]
      seen == look(Some(steps), Some(dir))
      path_length == PathLength(steps, seen.val)
  IN  IF seen.kind # "list" THEN [x |-> x, y |-> y, err |-> "TypeError"]
      ELSE CASE dir = N -> [x |-> x, y |-> y - path_length, err |-> "none"]
             [] dir = NE -> [x |-> x + path_length, y |-> y - path_length,
                             err |-> "none"]
             [] dir = E -> [x |-> x + path_length, y |-> y, err |-> "none"]
             [] dir = SE -> [x |-> x + path_length, y |-> y + path_length,
                             err |-> "none"]
             [] dir = S -> [x |-> x, y |-> y + path_length, err |-> "none"]
             [] dir = SW -> [x |-> x - path_length, y |-> y + path_length,
                             err |-> "none"]
             [] dir = W -> [x |-> x - path_length, y |-> y, err |-> "none"]
             [] dir = NW -> [x |-> x - path_length, y |-> y - path_length,
                             err |-> "none"]
             [] OTHER -> [x |-> x, y |-> y, err |-> "none"]

WalkArgs == (-MaxSteps)..MaxSteps

(* walk with self.heading = direction added: the cursor turns to face the  *)
(* way it walked                                                           *)
Walk_turning(steps, direction) ==
  /\ encloses(x, y)
  /\ LET w == walk(steps, direction)
     IN  /\ x' = w.x
         /\ y' = w.y
         /\ last' = [Call("walk") EXCEPT !.steps = Some(steps),
                                         !.direction = direction,
                                         !.err = w.err]
  /\ heading' = IF direction = None THEN heading ELSE direction[1]
  /\ UNCHANGED <<df, twin, solver>>

Walk(steps, direction) ==
  /\ encloses(x, y)
  /\ LET w == walk(steps, direction)
     IN  /\ x' = w.x
         /\ y' = w.y
         /\ last' = [Call("walk") EXCEPT !.steps = Some(steps),
                                         !.direction = direction,
                                         !.err = w.err]
  /\ UNCHANGED <<df, heading, twin, solver>>

(* ------------------------------ rotate --------------------------------- *)
(* math.floor in place of int: rounding down, not toward zero *)
IntOfHalves_floor(halves) == halves \div 2

(* int(v) for v = halves / 2: truncation toward zero *)
IntOfHalves(halves) ==
  IF halves >= 0 THEN halves \div 2 ELSE -((-halves) \div 2)

(* int(degrees // 45 + sign_adjustment), in halves to stay in the integers *)
Turn(degrees) ==
  LET sign_adjustment2 == IF degrees > 0 THEN 1 ELSE -1
  IN  IntOfHalves(2 * (degrees \div 45) + sign_adjustment2)

rotate(h, degrees) == (h + Turn(degrees)) % 8

DegreeArgs == (-MaxDegrees)..MaxDegrees

Rotate(degrees) ==
  /\ heading' = rotate(heading, degrees)
  /\ last' = [Call("rotate") EXCEPT !.degrees = degrees, !.h0 = heading]
  /\ UNCHANGED <<df, x, y, twin, solver>>

(* ------------------------- position, item access ----------------------- *)
PointArgs ==
  ((-MaxStray)..(Width - 1 + MaxStray))
    \X ((-MaxStray)..(Height - 1 + MaxStray))

SetPosition(x_new, y_new) ==
  /\ IF ~encloses(x_new, y_new)
       THEN /\ last' = [Call("position") EXCEPT !.px = x_new, !.py = y_new,
                                                !.err = "OutOfBounds"]
            /\ UNCHANGED <<x, y>>
       ELSE /\ x' = x_new
            /\ y' = y_new
            /\ last' = [Call("position") EXCEPT !.px = x_new, !.py = y_new]
  /\ UNCHANGED <<df, heading, twin, solver>>

(* m[x, y] with only the upper limits tested (x >= x_max or y >= y_max) *)
GetItem_upper(gx, gy) ==
  /\ IF gx >= x_max \/ gy >= y_max
       THEN last' = [Call("getitem") EXCEPT !.px = gx, !.py = gy,
                                            !.err = "OutOfBounds"]
       ELSE last' = [Call("getitem") EXCEPT !.px = gx, !.py = gy,
                                            !.kind = "value",
                                            !.ret = <<Cell(gy, gx)>>]
  /\ UNCHANGED <<df, x, y, heading, twin, solver>>

(* m[x, y] *)
GetItem(gx, gy) ==
  /\ IF gx \notin 0..(x_max - 1) \/ gy \notin 0..(y_max - 1)
       THEN last' = [Call("getitem") EXCEPT !.px = gx, !.py = gy,
                                            !.err = "OutOfBounds"]
       ELSE last' = [Call("getitem") EXCEPT !.px = gx, !.py = gy,
                                            !.kind = "value",
                                            !.ret = <<Cell(gy, gx)>>]
  /\ UNCHANGED <<df, x, y, heading, twin, solver>>

(* m[x, y] = value: AoCMap defines no __setitem__, so Python raises        *)
(* TypeError ('AoCMap' object does not support item assignment)            *)
SetItem(gx, gy, value) ==
  /\ last' = [Call("setitem") EXCEPT !.px = gx, !.py = gy,
                                     !.values = <<value>>,
                                     !.err = "TypeError"]
  /\ UNCHANGED <<df, x, y, heading, twin, solver>>

(* ------------------------------- clone --------------------------------- *)
(* AoCMap(self.df, self.x, self.y, self.heading): the same DataFrame *)
clone_same_df ==
  [made |-> TRUE, df |-> df, x |-> x, y |-> y, heading |-> heading,
   same_df |-> TRUE, receiver |-> "original"]

(* AoCMap(self.df.clone(), self.x, self.y, self.heading): the navigator    *)
(* clone() returns, on a DataFrame of its own                              *)
clone ==
  [made |-> TRUE, df |-> df, x |-> x, y |-> y, heading |-> heading,
   same_df |-> FALSE, receiver |-> "original"]

(* the first clone() of a run; the calls stay with the original *)
Clone ==
  /\ ~twin.made
  /\ twin' = clone
  /\ last' = Call("clone")
  /\ UNCHANGED <<df, x, y, heading, solver>>

(* the caller turns to the other of the two navigators: the next calls are *)
(* made on it                                                              *)
Other ==
  /\ twin.made
  /\ df' = twin.df
  /\ x' = twin.x
  /\ y' = twin.y
  /\ heading' = twin.heading
  /\ twin' = [twin EXCEPT
               !.df = df, !.x = x, !.y = y, !.heading = heading,
               !.receiver = IF twin.receiver = "original" THEN "clone"
                            ELSE "original"]
  /\ last' = Call("other")
  /\ UNCHANGED solver

(* ------------------- puzzle files (aoc_solver.py) ---------------------- *)
(* requests.codes.ok *)
OK == 200

(* what requests.get can come back with: a response (status_code, content; *)
(* the content a text as a sequence of characters) or an exception, such   *)
(* as the timeout after 60 seconds                                         *)
Response(status, content) ==
  [raised |-> FALSE, status |-> status, content |-> content]

Raised == [raised |-> TRUE, status |-> 0, content |-> <<>>]

Responses ==
  {Response(OK, <<"1", "\n">>), Response(OK, <<" ", "2", "\n">>),
   Response(404, <<"n", "o", "\n">>), Response(500, <<>>), Raised}

Whitespace == {" ", "\n"}

RECURSIVE LStrip(_)
LStrip(text) ==
  IF text # <<>> /\ Head(text) \in Whitespace THEN LStrip(Tail(text))
  ELSE text

RECURSIVE RStrip(_)
RStrip(text) ==
  IF text # <<>> /\ text[Len(text)] \in Whitespace
    THEN RStrip(SubSeq(text, 1, Len(text) - 1))
    ELSE text

(* AoCData.__post_init__: raw_data.strip() *)
Strip(text) == RStrip(LStrip(text))

(* what a read hands back: puzzle_input wraps the text of data.txt in      *)
(* AoCData, puzzle_instructions returns the text of instructions.html      *)
ReadAs(file, text) == IF file = "data" THEN Strip(text) ELSE text

(* the download with write_bytes under an else: of the status test: only a *)
(* successful response is written                                          *)
download_from_aoc_website_on_success(file, overwrite, response) ==
  LET made == [cache EXCEPT !.dir = TRUE]
  IN  IF overwrite \/ cache[file] = None
        THEN IF response.raised
               THEN [files |-> made, requested |-> TRUE, warned |-> FALSE,
                     body |-> None, err |-> "RequestException"]
               ELSE [files |-> IF response.status # OK THEN made
                               ELSE [made EXCEPT
                                       ![file] = Some(response.content)],
                     requested |-> TRUE, warned |-> response.status # OK,
                     body |-> Some(response.content), err |-> "none"]
        ELSE [files |-> made, requested |-> FALSE, warned |-> FALSE,
              body |-> None, err |-> "none"]

(* download_from_aoc_website(url, filepath, overwrite): the directory is   *)
(* made; if the file is missing or overwrite is set, the request is sent   *)
(* and the content of whatever response arrives is written to the file     *)
download_from_aoc_website(file, overwrite, response) ==
  LET made == [cache EXCEPT !.dir = TRUE]
  IN  IF overwrite \/ cache[file] = None
        THEN IF response.raised
               THEN [files |-> made, requested |-> TRUE, warned |-> FALSE,
                     body |-> None, err |-> "RequestException"]
               ELSE [files |-> [made EXCEPT ![file] = Some(response.content)],
                     requested |-> TRUE, warned |-> response.status # OK,
                     body |-> Some(response.content), err |-> "none"]
        ELSE [files |-> made, requested |-> FALSE, warned |-> FALSE,
              body |-> None, err |-> "none"]

(* the requests counted: those sent by calls with overwrite=False *)
Counted(file, overwrite, d) ==
  IF d.requested /\ ~overwrite
    THEN [requests EXCEPT
            ![file].sent = @ + 1,
            ![file].answered = IF d.err = "none" THEN @ + 1 ELSE @]
    ELSE requests

(* download_puzzle_input(overwrite) / download_instructions(overwrite) *)
Download(file, overwrite, response) ==
  /\ overwrite \/ cache[file] # None \/ requests[file].sent < MaxRequests
  /\ LET d == download_from_aoc_website(file, overwrite, response)
     IN  /\ cache' = d.files
         /\ requests' = Counted(file, overwrite, d)
         /\ io' = [Fetch("download", file, overwrite) EXCEPT
                     !.requested = d.requested, !.warned = d.warned,
                     !.body = d.body, !.err = d.err]
  /\ UNCHANGED <<df, x, y, heading, last, twin>>

(* puzzle_input / puzzle_instructions: download if the file is missing,    *)
(* then read the file                                                      *)
Read(file, response) ==
  /\ cache[file] # None \/ requests[file].sent < MaxRequests
  /\ IF cache[file] # None
       THEN /\ io' = [Fetch("read", file, FALSE) EXCEPT
                        !.ret = Some(ReadAs(file, cache[file][1]))]
            /\ UNCHANGED <<cache, requests>>
       ELSE LET d == download_from_aoc_website(file, FALSE, response)
            IN  /\ cache' = d.files
                /\ requests' = Counted(file, FALSE, d)
                /\ io' = [Fetch("read", file, FALSE) EXCEPT
                            !.requested = d.requested, !.warned = d.warned,
                            !.body = d.body, !.err = d.err,
                            !.ret = IF d.err # "none" THEN None
                                    ELSE Some(ReadAs(file, d.files[file][1]))]
  /\ UNCHANGED <<df, x, y, heading, last, twin>>

(* --------------------------- specifications ---------------------------- *)
(* The navigator as a whole, from AoCMap(df): every operation, in any      *)
(* order, with a few arguments each; update writes to the frame as built.  *)
Next ==
  \/ \E steps \in {None, Some(0), Some(-1)}, direction \in {None, Some(SE)} :
       Look(steps, direction)
  \/ /\ df = DemoFrame
     /\ \E offset \in {0, 1}, direction \in {None, Some(W)} :
          Update(DemoValues(1), offset, direction)
  \/ \E steps \in {-1, 0, 1, 2}, direction \in {None, Some(E)} :
       Walk(steps, direction)
  \/ \E degrees \in {-45, 30, 90} : Rotate(degrees)
  \/ \E p \in {<<1, 1>>, <<Width - 1, Height - 1>>, <<Width, 0>>, <<0, -1>>} :
       SetPosition(p[1], p[2])
  \/ \E p \in {<<0, 0>>, <<Width, 0>>} : GetItem(p[1], p[2])
  \/ \E p \in {<<0, 0>>, <<0, -1>>} : SetItem(p[1], p[2], 90)

Spec == Init /\ [][Next]_vars

(* Any cursor inside the demo frame, any heading. *)
InitAny ==
  /\ df = DemoFrame
  /\ x \in 0..(Width - 1)
  /\ y \in 0..(Height - 1)
  /\ heading \in Directions
  /\ last = Call("init")
  /\ twin = NoTwin
  /\ cache = NoFiles
  /\ requests = NoRequests
  /\ io = Fetch("init", "data", FALSE)

(* position assignment over all its targets *)
NextCursor == \E p \in PointArgs : SetPosition(p[1], p[2])

SpecCursor == InitAny /\ [][NextCursor]_vars

(* look and walk over all their arguments *)
NextLook ==
  \/ \E steps \in StepArgs, direction \in DirArgs : Look(steps, direction)
  \/ \E steps \in WalkArgs, direction \in DirArgs : Walk(steps, direction)

SpecLook == InitAny /\ [][NextLook]_vars

(* one update, over all its arguments *)
NextUpdate ==
  /\ last.op = "init"
  /\ \E values \in ValueArgs, offset \in OffsetArgs, direction \in DirArgs :
       Update(values, offset, direction)

SpecUpdate == InitAny /\ [][NextUpdate]_vars

(* rotate over all its arguments, from any heading *)
InitTurn ==
  /\ df = DemoFrame
  /\ x = 0
  /\ y = 0
  /\ heading \in Directions
  /\ last = Call("init")
  /\ twin = NoTwin
  /\ cache = NoFiles
  /\ requests = NoRequests
  /\ io = Fetch("init", "data", FALSE)

NextRotate == \E degrees \in DegreeArgs : Rotate(degrees)

SpecRotate == InitTurn /\ [][NextRotate]_vars

(* item access over all coordinates *)
NextGrid ==
  \/ \E p \in PointArgs : GetItem(p[1], p[2])
  \/ \E p \in PointArgs, value \in {90, 91} : SetItem(p[1], p[2], value)

SpecGrid == Init /\ [][NextGrid]_vars

(* a navigator and its clone, each called in turn *)
NextClone ==
  \/ Clone
  \/ Other
  \/ /\ df = DemoFrame
     /\ Update(DemoValues(1), 0, None)
  \/ Walk(1, None)
  \/ Rotate(180)
  \/ SetPosition(1, 1)

SpecClone == Init /\ [][NextClone]_vars

(* one update at offset 0 or 1, then one look *)
NextWriteRead ==
  \/ /\ last.op = "init"
     /\ \E values \in ValueArgs, offset \in {0, 1}, direction \in DirArgs :
          Update(values, offset, direction)
  \/ /\ last.op = "update"
     /\ \E steps \in StepArgs, direction \in DirArgs : Look(steps, direction)

SpecWriteRead == InitAny /\ [][NextWriteRead]_vars

(* look and walk over all their arguments, between turns *)
NextFrame ==
  \/ \E steps \in StepArgs, direction \in DirArgs : Look(steps, direction)
  \/ \E steps \in WalkArgs, direction \in DirArgs : Walk(steps, direction)
  \/ \E degrees \in {-90, -45, 30, 45, 360} : Rotate(degrees)

SpecFrame == InitAny /\ [][NextFrame]_vars

(* look with a direction that is no member of Direction: the integers next *)
(* to 0..7 on either side                                                  *)
MalformedArgs ==
  {Some(d) : d \in ((N - MaxStray)..(NW + MaxStray)) \ Directions}

NextMalformed ==
  \E steps \in StepArgs, direction \in MalformedArgs : Look(steps, direction)

SpecMalformed == InitAny /\ [][NextMalformed]_vars

(* the solver's two files: downloads and reads in any order, whatever the  *)
(* website answers                                                         *)
NextSolver ==
  \/ \E file \in Files, overwrite \in BOOLEAN, response \in Responses :
       Download(file, overwrite, response)
  \/ \E file \in Files, response \in Responses : Read(file, response)

SpecSolver == Init /\ [][NextSolver]_vars

(* ------------------------------ properties ----------------------------- *)
(* what the properties measure against: the grid's extent, stated on its   *)
(* own, and the unit step of each compass direction                        *)
InGrid(px, py) == 0 <= px /\ px < Width /\ 0 <= py /\ py < Height

Delta(d) ==
  CASE d = N -> <<0, -1>>
    [] d = NE -> <<1, -1>>
    [] d = E -> <<1, 0>>
    [] d = SE -> <<1, 1>>
    [] d = S -> <<0, 1>>
    [] d = SW -> <<-1, 1>>
    [] d = W -> <<-1, 0>>
    [] d = NW -> <<-1, -1>>

(* the number of cells between (px, py) and the boundary in direction d *)
Avail(px, py, d) ==
  CHOOSE n \in 0..(Width + Height) :
    /\ \A i \in 1..n : InGrid(px + i * Delta(d)[1], py + i * Delta(d)[2])
    /\ ~InGrid(px + (n + 1) * Delta(d)[1], py + (n + 1) * Delta(d)[2])

(* C1: a cursor that starts inside the grid is inside the grid after any   *)
(* sequence of walk (any integer steps, any direction), rotate, update and *)
(* position assignments: 0 <= x < width and 0 <= y < height.               *)
C1_CursorInsideGrid == InGrid(x, y)

(* C2: a position assignment to a target inside the grid sets the cursor   *)
(* to exactly that target; to any other target it fails with OutOfBounds   *)
(* and x, y, heading and every cell are what they were before the call.    *)
C2_PositionAllOrNothing ==
  [][last'.op = "position" =>
       /\ heading' = heading
       /\ df' = df
       /\ IF InGrid(last'.px, last'.py)
            THEN /\ last'.err = "none"
                 /\ x' = last'.px
                 /\ y' = last'.py
            ELSE /\ last'.err = "OutOfBounds"
                 /\ x' = x
                 /\ y' = y]_vars

(* a failed assignment whose x alone is out of range, on a moved cursor *)
C2_Witness ==
  /\ last.op = "position"
  /\ last.err = "OutOfBounds"
  /\ last.px = Width
  /\ last.py = 0
  /\ x = 1
  /\ y = 1

Resolved(call, h) == IF call.direction = None THEN h ELSE call.direction[1]

(* C4 as stated: for every step count s >= 0, s = 0 included,              *)
(* len(look(s, d)) = min(s, steps available to the boundary in direction   *)
(* d), and walk(s, d) moves the cursor by exactly that many cells along d. *)
C4_LookWalkAgree ==
  [][/\ (last'.op = "look" /\ last'.steps # None /\ last'.steps[1] >= 0) =>
          /\ last'.kind = "list"
          /\ Len(last'.ret)
               = Min(last'.steps[1], Avail(x, y, Resolved(last', heading)))
     /\ (last'.op = "walk" /\ last'.steps[1] >= 0) =>
          LET d == Resolved(last', heading)
              n == Min(last'.steps[1], Avail(x, y, d))
          IN  /\ x' = x + n * Delta(d)[1]
              /\ y' = y + n * Delta(d)[2]]_vars

(* C4, amended: for every step count s >= 1, len(look(s, d)) = min(s,      *)
(* steps available to the boundary in direction d) and walk(s, d) moves    *)
(* the cursor by exactly that many cells along d (both axes for a          *)
(* diagonal, none along an axis d does not involve); look(0, d) returns    *)
(* the cursor's cell value, not a list, and walk(0, d) does not move the   *)
(* cursor.                                                                 *)
C4_LookWalkAgreeFromOne ==
  [][/\ (last'.op = "look" /\ last'.steps # None /\ last'.steps[1] >= 1) =>
          /\ last'.kind = "list"
          /\ Len(last'.ret)
               = Min(last'.steps[1], Avail(x, y, Resolved(last', heading)))
     /\ (last'.op = "look" /\ last'.steps = Some(0)) =>
          /\ last'.kind = "value"
          /\ last'.ret = <<df[y][x]>>
     /\ (last'.op = "walk" /\ last'.steps[1] >= 1) =>
          LET d == Resolved(last', heading)
              n == Min(last'.steps[1], Avail(x, y, d))
          IN  /\ last'.err = "none"
              /\ x' = x + n * Delta(d)[1]
              /\ y' = y + n * Delta(d)[2]
     /\ (last'.op = "walk" /\ last'.steps = Some(0)) =>
          /\ x' = x
          /\ y' = y]_vars

(* a diagonal walk of 2 that the east edge cut to 1 *)
C4_Witness ==
  /\ last.op = "walk"
  /\ last.steps = Some(2)
  /\ last.direction = Some(SE)
  /\ last.err = "none"
  /\ x = Width - 1
  /\ y = 1

(* C5: for s >= 1 or s omitted, look returns exactly the cells             *)
(* (x + i*dx, y + i*dy), i = 1..n, in that order, n being the largest      *)
(* count with n <= s and every listed cell inside the grid; the cursor's   *)
(* own cell is not among them and the list is empty when n = 0.            *)
C5_LookContent ==
  (last.op = "look" /\ (last.steps = None \/ last.steps[1] >= 1)) =>
    LET d == Resolved(last, heading)
        a == Avail(x, y, d)
        n == IF last.steps = None \/ last.steps[1] > a THEN a
             ELSE last.steps[1]
    IN  /\ last.kind = "list"
        /\ last.ret = [i \in 1..n |->
                         df[y + i * Delta(d)[2]][x + i * Delta(d)[1]]]

(* an unbounded diagonal look that the nearer edge ends after one cell *)
C5_Witness ==
  /\ last.op = "look"
  /\ last.steps = None
  /\ last.direction = Some(SE)
  /\ x = Width - 2
  /\ y = 0
  /\ last.ret = <<df[1][Width - 1]>>

(* C6: for s > 0, look(-s, d) returns what look(s, (d + 4) mod 8) returns. *)
C6_LookReversal ==
  (last.op = "look" /\ last.steps # None /\ last.steps[1] < 0) =>
    [kind |-> last.kind, val |-> last.ret]
      = look(Some(-last.steps[1]), Some((Resolved(last, heading) + 4) % 8))

(* two cells seen behind an east-facing look from the third column *)
C6_Witness ==
  /\ last.op = "look"
  /\ last.steps = Some(-2)
  /\ last.direction = Some(E)
  /\ x = 2
  /\ y = 0
  /\ last.ret = <<df[0][1], df[0][0]>>

(* C7: update(values, o, d), a negative o meaning direction (d + 4) mod 8  *)
(* and offset |o|, writes values[i] into the cell (|o| + i) steps from the *)
(* cursor for exactly the longest prefix of values whose target cells are  *)
(* all inside the grid; it addresses no cell outside the grid and does not *)
(* fail, every other cell keeps its value, and x, y and heading are        *)
(* unchanged; with values = [] no cell changes.                            *)
C7_UpdateClipping ==
  [][last'.op = "update" =>
       LET vals == last'.values
           o == last'.offset
           d0 == Resolved(last', heading)
           d == IF o < 0 THEN (d0 + 4) % 8 ELSE d0
           a == IF o < 0 THEN -o ELSE o
           TX(i) == x + (a + i) * Delta(d)[1]
           TY(i) == y + (a + i) * Delta(d)[2]
           k == CHOOSE m \in 0..Len(vals) :
                  /\ \A i \in 0..(m - 1) : InGrid(TX(i), TY(i))
                  /\ m = Len(vals) \/ ~InGrid(TX(m), TY(m))
           On(r, c) == {i \in 0..(k - 1) : TX(i) = c /\ TY(i) = r}
       IN  /\ last'.err = "none"
           /\ x' = x
           /\ y' = y
           /\ heading' = heading
           /\ df' = [r \in 0..(Height - 1) |-> [c \in 0..(Width - 1) |->
                       IF On(r, c) = {} THEN df[r][c]
                       ELSE vals[(CHOOSE i \in On(r, c) : TRUE) + 1]]]]_vars

(* two values written east at offset 1 from the last but one column: the   *)
(* first lands in the last column, the second is dropped                   *)
C7_Witness ==
  /\ last.op = "update"
  /\ last.values = <<90, 91>>
  /\ last.offset = 1
  /\ last.direction = Some(E)
  /\ last.err = "none"
  /\ x = Width - 2
  /\ y = 0
  /\ df[0][Width - 1] = 90
  /\ df[0][Width - 2] = 10 * (Width - 2)

(* degrees / 45 rounded half away from zero: floor(degrees/45 + 0.5) for   *)
(* degrees > 0, ceil(degrees/45 - 0.5) for degrees < 0, 0 for 0            *)
RoundHalfAway(degrees) ==
  IF degrees > 0 THEN (2 * degrees + 45) \div 90
  ELSE IF degrees < 0 THEN -((45 - 2 * degrees) \div 90)
  ELSE 0

(* C8: for every heading h and every integer degrees, rotate(degrees) sets *)
(* the heading to (h + steps) mod 8, steps being degrees/45 rounded half   *)
(* away from zero.                                                         *)
C8_RotateRounding ==
  [][last'.op = "rotate" =>
       heading' = (heading + RoundHalfAway(last'.degrees)) % 8]_vars

(* C9: rotate(d) followed by rotate(-d) returns the heading to where it    *)
(* was before the two calls.                                               *)
C9_RotateInverse ==
  [][(last.op = "rotate" /\ last'.op = "rotate"
        /\ last'.degrees = -last.degrees) =>
       heading' = last.h0]_vars

(* the largest number of compass steps in DegreeArgs, and one more *)
MaxTurn == MaxDegrees \div 45 + 1

(* C10: for every heading h and every integer k, rotate(45 * k) sets the   *)
(* heading to (h + k) mod 8 (so rotate(360) and rotate(-360) change        *)
(* nothing), and the heading is always one of 0..7.                        *)
C10_RotateBySteps ==
  [][last'.op = "rotate" =>
       /\ heading' \in 0..7
       /\ \A k \in (-MaxTurn)..MaxTurn :
            last'.degrees = 45 * k => heading' = (heading + k) % 8]_vars

(* a quarter turn back from north-east, arriving at north-west *)
C10_Witness ==
  /\ last.op = "rotate"
  /\ last.degrees = -90
  /\ last.h0 = NE
  /\ heading = NW

(* C11: clone() returns a navigator whose cells, x, y and heading are the   *)
(* receiver's at the time of the call, and leaves the receiver as it was;  *)
(* from then on an update, walk, rotate or position assignment on either   *)
(* navigator changes no cell, coordinate or heading of the other one.      *)
C11_CloneIndependence ==
  [][/\ last'.op = "clone" =>
          /\ twin'.made
          /\ twin'.df = df /\ twin'.x = x /\ twin'.y = y
          /\ twin'.heading = heading
          /\ df' = df /\ x' = x /\ y' = y /\ heading' = heading
     /\ (twin.made /\ last'.op \in {"update", "walk", "rotate", "position"}) =>
          /\ twin'.df = twin.df /\ twin'.x = twin.x /\ twin'.y = twin.y
          /\ twin'.heading = twin.heading
          /\ twin'.receiver = twin.receiver]_vars

(* the clone has been written to, moved and turned; the original is as it  *)
(* was when it was cloned                                                  *)
C11_Witness ==
  /\ twin.made /\ twin.receiver = "clone"
  /\ last.op = "update"
  /\ df # DemoFrame /\ x = 1 /\ heading = S
  /\ twin.df = DemoFrame /\ twin.x = 0 /\ twin.heading = N

(* C12: after update(values, offset=1, d) with n = len(values) >= 1 from a *)
(* cursor inside the grid, look(n, d) returns the first min(n, cells to    *)
(* the boundary in direction d) of the values, in order; after the same    *)
(* update with offset 0 the cursor's own cell holds values[0] and          *)
(* look(n, d) returns the values from values[1] on, followed by the cells  *)
(* the update did not reach.                                               *)
C12_WriteReadAgree ==
  [][(/\ last.op = "update" /\ last'.op = "look"
      /\ Len(last.values) >= 1
      /\ last'.steps = Some(Len(last.values))
      /\ Resolved(last', heading) = Resolved(last, heading)) =>
       LET values == last.values
           n == Len(values)
           d == Resolved(last, heading)
           a == Min(n, Avail(x, y, d))
       IN  /\ last'.kind = "list"
           /\ last.offset = 1 => last'.ret = SubSeq(values, 1, a)
           /\ last.offset = 0 =>
                /\ df[y][x] = values[1]
                /\ last'.ret =
                     [i \in 1..a |->
                        IF i + 1 <= n THEN values[i + 1]
                        ELSE DemoFrame[y + i * Delta(d)[2]]
                                      [x + i * Delta(d)[1]]]]_vars

(* two values written east at offset 1 from the last but one column, then  *)
(* look(2, E): the one value that fitted                                   *)
C12_Witness ==
  /\ last.op = "look"
  /\ last.steps = Some(2)
  /\ last.direction = Some(E)
  /\ last.ret = <<90>>
  /\ x = Width - 2
  /\ y = 0
  /\ df[0][Width - 1] = 90

(* C13: look changes no cell and none of x, y, heading; walk changes no    *)
(* cell and not the heading, whether it walks along the heading or along   *)
(* an explicit direction; rotate changes no cell and neither x nor y.      *)
C13_FrameConditions ==
  [][/\ last'.op = "look" =>
          df' = df /\ x' = x /\ y' = y /\ heading' = heading
     /\ last'.op = "walk" => df' = df /\ heading' = heading
     /\ last'.op = "rotate" => df' = df /\ x' = x /\ y' = y]_vars

(* a walk of two cells east by a navigator heading south *)
C13_Witness ==
  /\ last.op = "walk"
  /\ last.steps = Some(2)
  /\ last.direction = Some(E)
  /\ last.err = "none"
  /\ heading = S
  /\ x = 2

(* C14: look with a direction that is none of the 8 members of Direction   *)
(* and with steps > 0 fails with an error instead of returning a result,   *)
(* and leaves the grid and the cursor as they were.                        *)
C14_MalformedRejected ==
  [][(/\ last'.op = "look"
      /\ last'.direction # None /\ last'.direction[1] \notin Directions
      /\ last'.steps # None /\ last'.steps[1] > 0) =>
       /\ last'.err # "none"
       /\ df' = df /\ x' = x /\ y' = y /\ heading' = heading]_vars

(* what C15 says of one download or read of a file, but for the count of   *)
(* requests: a request goes out exactly when the file is missing or        *)
(* overwrite is set; the content of the response that arrives, whatever    *)
(* its status, becomes the file; without a request the file stays as it    *)
(* is; a read returns what the file then holds; the other file is not      *)
(* touched                                                                 *)
CacheStep ==
  io'.op \in {"download", "read"} =>
    LET f == io'.file
    IN  /\ io'.requested = (io'.overwrite \/ cache[f] = None)
        /\ \A g \in Files \ {f} : cache'[g] = cache[g]
        /\ ~io'.requested => cache'[f] = cache[f] /\ io'.err = "none"
        /\ (io'.requested /\ io'.err = "none") =>
             io'.body # None /\ cache'[f] = io'.body
        /\ (io'.op = "read" /\ io'.err = "none") =>
             /\ cache'[f] # None
             /\ io'.ret = Some(ReadAs(f, cache'[f][1]))

(* C15 as stated: over reads and downloads, a call with overwrite=False    *)
(* sends a request only when the file is missing, so at most one such      *)
(* request is ever sent per file; the response body becomes the file       *)
(* whatever the status, later reads return the file unchanged, and only    *)
(* overwrite=True fetches again.                                           *)
C15_DownloadCache ==
  [][/\ CacheStep
     /\ \A f \in Files : requests'[f].sent <= 1]_vars

(* C15, amended: as stated, with "at most one request that is answered":   *)
(* a request that raises instead of returning a response leaves the file   *)
(* as it was (missing, unless overwrite was set) and fails the call, so    *)
(* the next read or download of a missing file sends a request again.      *)
C15_DownloadCacheAnswered ==
  [][/\ CacheStep
     /\ \A f \in Files : requests'[f].answered <= 1
     /\ (io'.op \in {"download", "read"} /\ io'.err # "none") =>
          /\ io'.requested /\ io'.ret = None
          /\ cache'[io'.file] = cache[io'.file]]_vars

(* a download answered 404 was written to instructions.html, and a later   *)
(* read is served from the file without another request                    *)
C15_Witness ==
  /\ io.op = "read"
  /\ io.file = "instructions"
  /\ ~io.requested
  /\ io.ret = Some(<<"n", "o", "\n">>)
  /\ requests["instructions"] = [sent |-> 1, answered |-> 1]

====
